---- MODULE Spec2Model ----
(***************************************************************************)
(* Knox: the server's request handlers (server/routes.go) over the Key     *)
(* Manager, and the client daemon that keeps the on-disk key cache in sync *)
(* with the register file and the server.                                  *)
(*                                                                         *)
(* The specifications share the variables: Spec, VersionSpec, CreateSpec   *)
(* and AccessSpec run the server's handlers on concurrent threads,         *)
(* DaemonSpec runs the daemon's update() beside an external writer of the  *)
(* register file, RegisterSpec runs that writer alone, and LoopSpec runs   *)
(* the daemon's loop() with its ticker and file watcher.                   *)
(***************************************************************************)
EXTENDS Integers, Sequences, FiniteSets, TLC

\* The fields of the records of this module, in the one order in which every
\* record below lists them (TLC keeps a record's fields in the order it first met
\* their names, and a record written in that order needs no reordering).
RecordFields ==
    [type |-> 1, k |-> 2, id |-> 3, h |-> 4, p |-> 5, keyID |-> 6, data |-> 7,
     Type |-> 8, ID |-> 9, AccessType |-> 10, ACL |-> 11, VersionList |-> 12,
     Status |-> 13, st |-> 14, v |-> 15, vid |-> 16, called |-> 17, allow |-> 18,
     err |-> 19, cb |-> 20, key |-> 21, acl |-> 22, access |-> 23, panicked |-> 24,
     status |-> 25, versionID |-> 26, bytes |-> 27, isNil |-> 28, n |-> 29,
     aclNil |-> 30, vlNil |-> 31, VersionHash |-> 32, req |-> 33, code |-> 34,
     body |-> 35, authz |-> 36, keys |-> 37, write |-> 38, out |-> 39, locked |-> 40,
     regRead |-> 41, dirRead |-> 42, rmFailed |-> 43, deleted |-> 44, srvCalled |-> 45,
     diskTouched |-> 46, wrote |-> 47, keyErrs |-> 48, regRemoved |-> 49,
     updatedEmpty |-> 50, srvFault |-> 51, fsFault |-> 52, unlocked |-> 53,
     result |-> 54, prev |-> 55, cur |-> 56, valid |-> 57, removed |-> 58, disk |-> 59,
     b |-> 60, pre |-> 61, updateErrCount |-> 62, successCount |-> 63,
     getKeyErrCount |-> 64, pc |-> 65, buf |-> 66, ops |-> 67, op |-> 68, ks |-> 69,
     tick |-> 70, events |-> 71, waiting |-> 72, owed |-> 73, iterations |-> 74]

VARIABLES
    keys,           \* the Key Manager's store: key ID -> Key
    accessCallback, \* the process-wide accessCallback: "nil" or "installed"
    serverUp,       \* FALSE once a panic has left a handler
    pc,             \* per thread: "idle", or "authorized" between authorizeRequest and the mutation
    req,            \* per thread: the request the thread is serving
    authz,          \* per thread: what authorizeRequest returned to the handler
    last,           \* the most recently returned (request, response)
    \* the daemon's host
    regFile,        \* the register file: the ids it holds, in file order
    regStable,      \* the register file as its last complete write left it
    disk,           \* the key directory: id -> content of the cache file
    tmp,            \* the temp file of the processKey under way
    dHolds,         \* the daemon holds the register-file lock
    cHolds,         \* the external writer holds the register-file lock
    srv,            \* what the server holds for each id: "ok", "unauth", "missing"
    dpc,            \* where the daemon is in update() / processKey()
    keyIDs,         \* update(): the ids Get returned
    keyMap,         \* update(): id -> cached VersionHash ("" when none)
    updatedKeys,    \* update(): the ids of the server's answer still to process
    curKey,         \* processKey(): its keyID, the error it returns
    counts,         \* updateErrCount, getKeyErrCount, successCount
    cli,            \* the external writer: its position, its buffer, its operations so far
    run,            \* what the update() under way (or the last one) has done
    hist,           \* the two updates completed before now
    wake            \* loop(): what its select has to receive, and where it stands

srvVars == <<keys, accessCallback, serverUp, pc, req, authz, last>>

dVars == <<regFile, regStable, disk, tmp, dHolds, cHolds, srv, dpc, keyIDs, keyMap,
           updatedKeys, curKey, counts, cli, run, hist, wake>>

\* ----------------------------------------------------------------- bounds

NumThreads == 2
MaxVersions == 2
MaxRuns == 2
MaxCliOps == 1
MaxRegLen == 2
MaxEvents == 2

Threads == 1..NumThreads

\* ------------------------------------------------------------- data model

Absent == "<absent>"

Primary == "Primary"
Active == "Active"
Inactive == "Inactive"

\* Visibility order of GetKey's minimum status: Primary > Active > Inactive.
StatusRank(s) == CASE s = "Primary" -> 2 [] s = "Active" -> 1 [] OTHER -> 0

\* None < Read < Write < Admin.
AccessRank(a) == CASE a = "Admin" -> 3 [] a = "Write" -> 2 [] a = "Read" -> 1 [] OTHER -> 0

Rule(ty, id, at) == [Type |-> ty, ID |-> id, AccessType |-> at]

Alice == [type |-> "User", id |-> "alice"]
Mallory == [type |-> "User", id |-> "mallory"]
Host1 == [type |-> "Machine", id |-> "host1"]
Principals == {Alice, Mallory, Host1}

\* auth.IsUser
IsUser(p) == p.type = "User"

\* Principal.CanAccess: some rule that matches the caller grants at least `wanted`.
CanAccess(p, acl, wanted) ==
    \E i \in 1..Len(acl) :
        /\ acl[i].Type = p.type
        /\ acl[i].ID = p.id
        /\ AccessRank(acl[i].AccessType) >= AccessRank(wanted)

\* PrincipalType.IsValidPrincipal: the empty ID is the invalid one here.
IsValidPrincipal(ty, id) == id # ""

NoKey == [ID |-> "", ACL |-> <<>>, VersionList |-> <<>>]

KeyVersion(id, status) == [ID |-> id, Status |-> status]

VersionIDs(vl) == {vl[i].ID : i \in 1..Len(vl)}

\* The status of version `vid` of a version list that has it.
StatusOf(vl, vid) == vl[CHOOSE i \in 1..Len(vl) : vl[i].ID = vid].Status

NumPrimary(vl) == Cardinality({i \in 1..Len(vl) : vl[i].Status = "Primary"})

\* newKeyVersion's ID: fresh within the key (versions are never removed from a key).
FreshID(vl) == Len(vl) + 1

\* newKeyVersion(data, status)
newKeyVersion(vl, status) == KeyVersion(FreshID(vl), status)

\* newKey(id, acl, data, creator): one Primary version; the creator is granted Admin
\* by appending a rule unless the supplied ACL already grants it.
newKey(id, acl, creator) ==
    [ID |-> id,
     ACL |-> IF CanAccess(creator, acl, "Admin")
             THEN acl
             ELSE Append(acl, Rule("User", creator.id, "Admin")),
     VersionList |-> <<newKeyVersion(<<>>, "Primary")>>]

\* ------------------------------------------------------------ Key Manager
\* Every operation is one atomic step on the store and returns its error
\* ("nil" when there is none) with the store it leaves.

ValidKeyID(id) == id \in {"k1"}

KM_GetKey(ks, id, minStatus) ==
    IF id \notin DOMAIN ks
    THEN [err |-> "ErrKeyIDNotFound", key |-> NoKey]
    ELSE [err |-> "nil",
          key |-> [ks[id] EXCEPT !.VersionList =
                      SelectSeq(@, LAMBDA v : StatusRank(v.Status) >= StatusRank(minStatus))]]

KM_AddNewKey(ks, key) ==
    IF key.ID \in DOMAIN ks THEN [err |-> "ErrKeyExists", keys |-> ks]
    ELSE IF ~ValidKeyID(key.ID) THEN [err |-> "ErrInvalidKeyID", keys |-> ks]
    ELSE [err |-> "nil", keys |-> [k \in DOMAIN ks \cup {key.ID} |-> IF k = key.ID THEN key ELSE ks[k]]]

KM_DeleteKey(ks, id) ==
    IF id \notin DOMAIN ks THEN [err |-> "ErrKeyIDNotFound", keys |-> ks]
    ELSE [err |-> "nil", keys |-> [k \in DOMAIN ks \ {id} |-> ks[k]]]

\* One rule applied to an ACL by (Type, ID): None removes, any other type replaces or appends.
ApplyRule(acl, rule) ==
    LET same(a) == a.Type = rule.Type /\ a.ID = rule.ID
        hit == {i \in 1..Len(acl) : same(acl[i])}
    IN IF rule.AccessType = "None" THEN SelectSeq(acl, LAMBDA a : ~same(a))
       ELSE IF hit = {} THEN Append(acl, rule)
       ELSE [i \in 1..Len(acl) |-> IF i \in hit THEN rule ELSE acl[i]]

RECURSIVE ApplyRules(_, _)
ApplyRules(acl, rules) ==
    IF rules = <<>> THEN acl ELSE ApplyRules(ApplyRule(acl, Head(rules)), Tail(rules))

KM_UpdateAccess(ks, id, rules) ==
    IF id \notin DOMAIN ks THEN [err |-> "ErrKeyIDNotFound", keys |-> ks]
    ELSE [err |-> "nil", keys |-> [ks EXCEPT ![id].ACL = ApplyRules(@, rules)]]

KM_AddVersion(ks, id, version) ==
    IF id \notin DOMAIN ks THEN [err |-> "ErrKeyIDNotFound", keys |-> ks]
    ELSE [err |-> "nil", keys |-> [ks EXCEPT ![id].VersionList = Append(@, version)]]

\* The version-status state machine; a promotion to Primary demotes the current
\* Primary to Active in the same step.
KM_UpdateVersion(ks, id, vid, s) ==
    IF id \notin DOMAIN ks THEN [err |-> "ErrKeyIDNotFound", keys |-> ks]
    ELSE LET vl == ks[id].VersionList IN
    IF vid \notin VersionIDs(vl) THEN [err |-> "ErrKeyVersionNotFound", keys |-> ks]
    ELSE LET cur == StatusOf(vl, vid) IN
    IF cur = "Primary" /\ s = "Active" THEN [err |-> "ErrPrimaryToActive", keys |-> ks]
    ELSE IF cur = "Primary" /\ s = "Inactive" THEN [err |-> "ErrPrimaryToInactive", keys |-> ks]
    ELSE IF cur = "Inactive" /\ s = "Primary" THEN [err |-> "ErrInactiveToPrimary", keys |-> ks]
    ELSE IF cur = s THEN [err |-> "nil", keys |-> ks]
    ELSE [err |-> "nil",
          keys |-> [ks EXCEPT ![id].VersionList =
                      [i \in 1..Len(vl) |->
                          IF vl[i].ID = vid THEN [vl[i] EXCEPT !.Status = s]
                          ELSE IF s = "Primary" /\ vl[i].Status = "Primary"
                               THEN [vl[i] EXCEPT !.Status = "Active"]
                          ELSE vl[i]]]]

\* ------------------------------------------------- requests and responses

\* An optional parameter holding a JSON document: absent, undecodable, or decoded to v.
NoAcl == [st |-> "absent", v |-> <<>>]
BadAcl == [st |-> "bad", v |-> <<>>]
OkAcl(v) == [st |-> "ok", v |-> v]

NoRule == Rule("User", "", "None")
NoAccess == [st |-> "absent", v |-> NoRule]
BadAccess == [st |-> "bad", v |-> NoRule]
OkAccess(rule) == [st |-> "ok", v |-> rule]

Req(h, p, keyID, data, acl, access, status, versionID) ==
    [h |-> h, p |-> p, keyID |-> keyID, data |-> data, acl |-> acl,
     access |-> access, status |-> status, versionID |-> versionID]

NoReq == Req("none", Alice, Absent, Absent, NoAcl, NoAccess, Absent, Absent)

NullBody == [vid |-> 0, key |-> NoKey, acl |-> <<>>]
VidBody(vid) == [NullBody EXCEPT !.vid = vid]
KeyBody(key) == [NullBody EXCEPT !.key = key]
AclBody(acl) == [NullBody EXCEPT !.acl = acl]

NoAuthz == [called |-> FALSE, allow |-> FALSE, err |-> FALSE, cb |-> "none",
            access |-> "None", panicked |-> FALSE]

\* base64.StdEncoding.DecodeString on the data parameters the requests carry: line
\* feeds are skipped, so a string of line feeds decodes to zero bytes without error.
LF == "<LF>"
StdDecode(s) ==
    CASE s = "aGk=" -> [err |-> FALSE, bytes |-> <<"h", "i">>, isNil |-> FALSE]
      [] s = LF     -> [err |-> FALSE, bytes |-> <<>>, isNil |-> FALSE]
      [] s = ""     -> [err |-> FALSE, bytes |-> <<>>, isNil |-> FALSE]
      [] OTHER      -> [err |-> TRUE, bytes |-> <<>>, isNil |-> FALSE]

\* VersionStatus.UnmarshalJSON: exactly the three status names.
UnmarshalStatus(s) ==
    IF s \in {"Primary", "Active", "Inactive"} THEN [err |-> FALSE, status |-> s]
    ELSE [err |-> TRUE, status |-> "Active"]

\* strconv.ParseUint(versionID, 10, 64)
ParseUint(s) ==
    CASE s = "1" -> [err |-> FALSE, n |-> 1]
      [] s = "2" -> [err |-> FALSE, n |-> 2]
      [] s = "3" -> [err |-> FALSE, n |-> 3]
      [] s = "4" -> [err |-> FALSE, n |-> 4]
      [] OTHER   -> [err |-> TRUE, n |-> 0]

\* What the installed access callback may do when it is called.
CallbackOutcomes == {"allow", "deny", "error", "allow_error", "panic"}

\* ----------------------------------------------------------- authorization

\* authorizeRequest without its deferred recover(): the panic leaves the function.
authorizeRequestNoRecover(key, p, access, cb) ==
    LET allow == CanAccess(p, key.ACL, access) IN
    IF allow \/ accessCallback = "nil"
    THEN [NoAuthz EXCEPT !.called = TRUE, !.allow = allow, !.access = access]
    ELSE [called |-> TRUE,
          allow |-> cb \in {"allow", "allow_error"},
          err |-> cb \in {"error", "allow_error"},
          cb |-> cb, access |-> access, panicked |-> cb = "panic"]

\* authorizeRequest: the ACL decides; the callback is asked only when the ACL denies
\* and a callback is installed; its panic is recovered into err, allow staying false.
authorizeRequest(key, p, access, cb) ==
    LET allow == CanAccess(p, key.ACL, access) IN
    IF allow \/ accessCallback = "nil"
    THEN [NoAuthz EXCEPT !.called = TRUE, !.allow = allow, !.access = access]
    ELSE IF cb = "panic"
    THEN [called |-> TRUE, allow |-> FALSE, err |-> TRUE, cb |-> cb,
          access |-> access, panicked |-> FALSE]
    ELSE [called |-> TRUE,
          allow |-> cb \in {"allow", "allow_error"},
          err |-> cb \in {"error", "allow_error"},
          cb |-> cb, access |-> access, panicked |-> FALSE]

\* A handler's check of authorizeRequest's answer that forgets the denial.
AuthDecisionNoDeny(az) ==
    IF az.err THEN "InternalServerError" ELSE "proceed"

\* A handler's check of authorizeRequest's answer: the error first, then the denial.
AuthDecision(az) ==
    IF az.err THEN "InternalServerError"
    ELSE IF ~az.allow THEN "Unauthorized"
    ELSE "proceed"

\* The handler returns (value, httpError) to the transport.
Return(t, r, code, body, az) ==
    /\ last' = [req |-> r, code |-> code, body |-> body, authz |-> az]
    /\ pc' = [pc EXCEPT ![t] = "idle"]
    /\ req' = [req EXCEPT ![t] = NoReq]
    /\ authz' = [authz EXCEPT ![t] = NoAuthz]
    /\ serverUp' = serverUp
    /\ UNCHANGED dVars

\* The handler goes on to its Key Manager mutation.
Proceed(t, r, az) ==
    /\ pc' = [pc EXCEPT ![t] = "authorized"]
    /\ req' = [req EXCEPT ![t] = r]
    /\ authz' = [authz EXCEPT ![t] = az]
    /\ UNCHANGED <<last, serverUp>>
    /\ UNCHANGED dVars

\* A panic leaves the handler: the process is gone.
Crash(t) ==
    /\ serverUp' = FALSE
    /\ UNCHANGED <<last, pc, req, authz>>
    /\ UNCHANGED dVars

\* After authorizeRequest: crash, return the error or the denial, or go on.
AfterAuthorize(t, r, az) ==
    IF az.panicked THEN Crash(t)
    ELSE IF AuthDecision(az) # "proceed" THEN Return(t, r, AuthDecision(az), NullBody, az)
    ELSE Proceed(t, r, az)

\* GetKey's error as the key-specific handlers map it.
GetErrCode(err) ==
    IF err = "ErrKeyIDNotFound" THEN "KeyIdentifierDoesNotExist" ELSE "InternalServerError"

\* ----------------------------------------------------------------- requests

PostKeysReq(p, id, data, acl) == Req("postkeys", p, id, data, acl, NoAccess, Absent, Absent)
GetKeyReq(p, status) == Req("getkey", p, "k1", Absent, NoAcl, NoAccess, status, Absent)
GetAccessReq(p) == Req("getaccess", p, "k1", Absent, NoAcl, NoAccess, Absent, Absent)
DeleteKeyReq(p) == Req("deletekey", p, "k1", Absent, NoAcl, NoAccess, Absent, Absent)
PutAccessReq(p, access, acl) == Req("putaccess", p, "k1", Absent, acl, access, Absent, Absent)
PostVersionReq(p, data) == Req("postversion", p, "k1", data, NoAcl, NoAccess, Absent, Absent)
PutVersionReq(p, vid, status) == Req("putversion", p, "k1", Absent, NoAcl, NoAccess, status, vid)

\* ---------------------------------------------------------------- handlers

\* postKeysHandler's authorization, were every principal let through.
postKeysAuthorizedAnyone(p) == TRUE

\* postKeysHandler's authorization: only a user creates keys.
postKeysAuthorized(p) == IsUser(p)

\* postKeysHandler's value, were it the zero version ID.
postKeysValueZero(key) == VidBody(0)

\* postKeysHandler's value: the ID of the first version of the key it made.
postKeysValue(key) == VidBody(key.VersionList[1].ID)

\* postKeysHandler: (code, body, store) for request r.
postKeysResult(ks, r) ==
    IF ~postKeysAuthorized(r.p) THEN [code |-> "Unauthorized", body |-> NullBody, keys |-> ks]
    ELSE IF r.keyID = Absent THEN [code |-> "NoKeyID", body |-> NullBody, keys |-> ks]
    ELSE IF r.data = Absent THEN [code |-> "NoKeyData", body |-> NullBody, keys |-> ks]
    ELSE IF r.data = "" THEN [code |-> "NoKeyData", body |-> NullBody, keys |-> ks]
    ELSE IF r.acl.st = "bad" THEN [code |-> "BadRequestData", body |-> NullBody, keys |-> ks]
    ELSE IF StdDecode(r.data).err THEN [code |-> "BadRequestData", body |-> NullBody, keys |-> ks]
    ELSE LET key == newKey(r.keyID, r.acl.v, r.p)
             add == KM_AddNewKey(ks, key)
         IN IF add.err = "ErrKeyExists"
            THEN [code |-> "KeyIdentifierExists", body |-> NullBody, keys |-> add.keys]
            ELSE IF add.err = "ErrInvalidKeyID"
            THEN [code |-> "BadKeyFormat", body |-> NullBody, keys |-> add.keys]
            ELSE IF add.err # "nil"
            THEN [code |-> "InternalServerError", body |-> NullBody, keys |-> add.keys]
            ELSE [code |-> "OK", body |-> postKeysValue(key), keys |-> add.keys]

postKeysHandler(t, r) ==
    /\ serverUp /\ pc[t] = "idle"
    /\ LET out == postKeysResult(keys, r)
       IN /\ keys' = out.keys
          /\ Return(t, r, out.code, out.body, NoAuthz)
    /\ UNCHANGED accessCallback

\* getKeyHandler's response, were the ACL left in the key.
getKeyResponseWithACL(key) == key

\* getKeyHandler's response: the key with its ACL zeroed.
getKeyResponse(key) == [key EXCEPT !.ACL = <<>>]

getKeyHandler(t, r, cb) ==
    /\ serverUp /\ pc[t] = "idle"
    /\ LET status == IF r.status = Absent THEN [err |-> FALSE, status |-> "Active"]
                     ELSE UnmarshalStatus(r.status)
           g == KM_GetKey(keys, r.keyID, status.status)
           az == authorizeRequest(g.key, r.p, "Read", cb)
       IN IF status.err THEN Return(t, r, "BadRequestData", NullBody, NoAuthz)
          ELSE IF g.err # "nil" THEN Return(t, r, GetErrCode(g.err), NullBody, NoAuthz)
          ELSE IF az.panicked THEN Crash(t)
          ELSE IF AuthDecision(az) # "proceed"
          THEN Return(t, r, AuthDecision(az), NullBody, az)
          ELSE Return(t, r, "OK", KeyBody(getKeyResponse(g.key)), az)
    /\ UNCHANGED <<keys, accessCallback>>

getAccessHandler(t, r) ==
    /\ serverUp /\ pc[t] = "idle"
    /\ LET g == KM_GetKey(keys, r.keyID, "Primary")
       IN IF g.err # "nil" THEN Return(t, r, GetErrCode(g.err), NullBody, NoAuthz)
          ELSE Return(t, r, "OK", AclBody(g.key.ACL), NoAuthz)
    /\ UNCHANGED <<keys, accessCallback>>

\* deleteKeyHandler up to its authorization.
deleteKeyHandler(t, r, cb) ==
    /\ serverUp /\ pc[t] = "idle"
    /\ LET g == KM_GetKey(keys, r.keyID, "Primary")
       IN IF g.err # "nil" THEN Return(t, r, GetErrCode(g.err), NullBody, NoAuthz)
          ELSE AfterAuthorize(t, r, authorizeRequest(g.key, r.p, "Admin", cb))
    /\ UNCHANGED <<keys, accessCallback>>

\* deleteKeyHandler from m.DeleteKey on.
deleteKeyHandler_DeleteKey(t) ==
    /\ serverUp /\ pc[t] = "authorized" /\ req[t].h = "deletekey"
    /\ LET d == KM_DeleteKey(keys, req[t].keyID)
       IN /\ keys' = d.keys
          /\ IF d.err # "nil" THEN Return(t, req[t], "InternalServerError", NullBody, authz[t])
             ELSE Return(t, req[t], "OK", NullBody, authz[t])
    /\ UNCHANGED accessCallback

\* The rules a put-access request carries: access wins when both are present.
PutAccessRules(r) ==
    IF r.access.st # "absent" THEN <<r.access.v>> ELSE r.acl.v

\* putAccessHandler up to its authorization.
putAccessHandler(t, r, cb) ==
    /\ serverUp /\ pc[t] = "idle"
    /\ LET g == KM_GetKey(keys, r.keyID, "Primary")
       IN IF r.access.st = "bad" THEN Return(t, r, "BadRequestData", NullBody, NoAuthz)
          ELSE IF r.access.st = "absent" /\ r.acl.st = "bad"
          THEN Return(t, r, "BadRequestData", NullBody, NoAuthz)
          ELSE IF r.access.st = "absent" /\ r.acl.st = "absent"
          THEN Return(t, r, "BadRequestData", NullBody, NoAuthz)
          ELSE IF g.err # "nil" THEN Return(t, r, GetErrCode(g.err), NullBody, NoAuthz)
          ELSE AfterAuthorize(t, r, authorizeRequest(g.key, r.p, "Admin", cb))
    /\ UNCHANGED <<keys, accessCallback>>

\* putAccessHandler from the validation of the principal IDs on.
putAccessHandler_UpdateAccess(t) ==
    /\ serverUp /\ pc[t] = "authorized" /\ req[t].h = "putaccess"
    /\ LET acl == PutAccessRules(req[t])
           bad == \E i \in 1..Len(acl) :
                      acl[i].AccessType # "None" /\ ~IsValidPrincipal(acl[i].Type, acl[i].ID)
           u == KM_UpdateAccess(keys, req[t].keyID, acl)
       IN IF bad
          THEN keys' = keys /\ Return(t, req[t], "BadPrincipalIdentifier", NullBody, authz[t])
          ELSE /\ keys' = u.keys
               /\ IF u.err # "nil"
                  THEN Return(t, req[t], "InternalServerError", NullBody, authz[t])
                  ELSE Return(t, req[t], "OK", NullBody, authz[t])
    /\ UNCHANGED accessCallback

\* The status a version added by postVersionHandler enters with, were it Primary.
postVersionStatusPrimary == "Primary"

\* The status a version added by postVersionHandler enters with.
postVersionStatus == "Active"

\* Add-version requests in flight for the key (each will grow the version list).
PendingVersions == Cardinality({u \in Threads : pc[u] = "authorized" /\ req[u].h = "postversion"})

\* postVersionHandler up to its authorization.
postVersionHandler(t, r, cb) ==
    /\ serverUp /\ pc[t] = "idle"
    /\ LET dec == StdDecode(r.data)
           g == KM_GetKey(keys, r.keyID, "Inactive")
       IN IF r.data = Absent THEN Return(t, r, "BadRequestData", NullBody, NoAuthz)
          ELSE IF r.data = "" THEN Return(t, r, "BadRequestData", NullBody, NoAuthz)
          ELSE IF dec.err THEN Return(t, r, "BadRequestData", NullBody, NoAuthz)
          ELSE IF dec.isNil THEN Return(t, r, "BadRequestData", NullBody, NoAuthz)
          ELSE IF g.err # "nil" THEN Return(t, r, GetErrCode(g.err), NullBody, NoAuthz)
          ELSE /\ Len(g.key.VersionList) + PendingVersions < MaxVersions
               /\ AfterAuthorize(t, r, authorizeRequest(g.key, r.p, "Write", cb))
    /\ UNCHANGED <<keys, accessCallback>>

\* postVersionHandler from newKeyVersion on.
postVersionHandler_AddVersion(t) ==
    /\ serverUp /\ pc[t] = "authorized" /\ req[t].h = "postversion"
    /\ LET vl == IF req[t].keyID \in DOMAIN keys THEN keys[req[t].keyID].VersionList ELSE <<>>
           version == newKeyVersion(vl, postVersionStatus)
           a == KM_AddVersion(keys, req[t].keyID, version)
       IN /\ keys' = a.keys
          /\ IF a.err # "nil" THEN Return(t, req[t], "InternalServerError", NullBody, authz[t])
             ELSE Return(t, req[t], "OK", VidBody(version.ID), authz[t])
    /\ UNCHANGED accessCallback

\* UpdateVersion's error as a handler maps it that gives the transition errors no case.
UpdateVersionCodeNoCase(err) ==
    CASE err = "nil" -> "OK"
      [] err = "ErrKeyVersionNotFound" -> "KeyVersionDoesNotExist"
      [] OTHER -> "InternalServerError"

\* UpdateVersion's error as putVersionsHandler maps it.
UpdateVersionCode(err) ==
    CASE err = "nil" -> "OK"
      [] err = "ErrKeyVersionNotFound" -> "KeyVersionDoesNotExist"
      [] err \in {"ErrPrimaryToInactive", "ErrPrimaryToActive", "ErrInactiveToPrimary"} -> "BadRequestData"
      [] OTHER -> "InternalServerError"

\* putVersionsHandler up to its authorization.
putVersionsHandler(t, r, cb) ==
    /\ serverUp /\ pc[t] = "idle"
    /\ LET g == KM_GetKey(keys, r.keyID, "Inactive")
       IN IF r.status = Absent THEN Return(t, r, "BadRequestData", NullBody, NoAuthz)
          ELSE IF UnmarshalStatus(r.status).err THEN Return(t, r, "BadRequestData", NullBody, NoAuthz)
          ELSE IF ParseUint(r.versionID).err THEN Return(t, r, "BadRequestData", NullBody, NoAuthz)
          ELSE IF g.err # "nil" THEN Return(t, r, GetErrCode(g.err), NullBody, NoAuthz)
          ELSE AfterAuthorize(t, r, authorizeRequest(g.key, r.p, "Write", cb))
    /\ UNCHANGED <<keys, accessCallback>>

\* putVersionsHandler from m.UpdateVersion on.
putVersionsHandler_UpdateVersion(t) ==
    /\ serverUp /\ pc[t] = "authorized" /\ req[t].h = "putversion"
    /\ LET u == KM_UpdateVersion(keys, req[t].keyID, ParseUint(req[t].versionID).n,
                                 UnmarshalStatus(req[t].status).status)
       IN /\ keys' = u.keys
          /\ Return(t, req[t], UpdateVersionCode(u.err), NullBody, authz[t])
    /\ UNCHANGED accessCallback

\* =============================================================== the daemon

KeyIDs == {"k1", "k2"}

\* The content of a file: none, a file of an earlier client's format, a complete
\* serialized key, or a key's bytes cut short.
NoFile == [k |-> "none", id |-> "", h |-> ""]
Legacy == [k |-> "legacy", id |-> "", h |-> ""]
FullKey(id, h) == [k |-> "key", id |-> id, h |-> h]
PartialKey(id, h) == [k |-> "partial", id |-> id, h |-> h]

Range(q) == {q[i] : i \in 1..Len(q)}

\* Every order in which a map's keys may come out of a range loop.
Orders(S) == {q \in [1..Cardinality(S) -> S] : Range(q) = S}

\* The server's current VersionHash of a key; "H0" is an older one.
SrvHash(id) == "H1"

\* The key the server returns for id.
ServerKey(id) == [ID |-> id, aclNil |-> FALSE, vlNil |-> FALSE, VersionHash |-> SrvHash(id)]

NoFetch == [ID |-> "", aclNil |-> TRUE, vlNil |-> TRUE, VersionHash |-> ""]

\* Keys with invalid content: one field of the four missing.
InvalidKeys(id) ==
    {[ServerKey(id) EXCEPT !.ID = ""], [ServerKey(id) EXCEPT !.aclNil = TRUE],
     [ServerKey(id) EXCEPT !.vlNil = TRUE], [ServerKey(id) EXCEPT !.VersionHash = ""]}

\* cli.GetKeys -> the server's GetUpdatedKeyIDs: the ids the server has whose hash
\* differs from the one supplied (the empty hash differs from every hash).
GetUpdatedKeyIDs(m) == {id \in DOMAIN m : srv[id] # "missing" /\ m[id] # SrvHash(id)}

\* The Key Manager's GetAllKeyIDs: every id the server holds.
GetAllKeyIDs == {id \in KeyIDs : srv[id] # "missing"}

\* getKeysHandler on the query cli.GetKeys sends (one parameter per entry of the
\* map): a query without parameters is answered with all key ids, any other with
\* the updated ones among those it names.
getKeysHandler(m) == IF DOMAIN m = {} THEN GetAllKeyIDs ELSE GetUpdatedKeyIDs(m)

\* update() asking the server whatever the request map holds.
NeedsServerCallAlways(m) == TRUE

\* update() asks the server only with a non-empty request map: len(keyMap) > 0.
NeedsServerCall(m) == DOMAIN m # {}

\* cli.NetworkGetKey: what the call may return for id. A key the server listed as
\* updated may be gone when it is fetched.
NetworkGetKey(id) ==
    {[err |-> "connection refused", key |-> NoFetch]} \cup
    CASE srv[id] = "ok" ->
            {[err |-> "nil", key |-> ServerKey(id)]}
                \cup {[err |-> "nil", key |-> k] : k \in InvalidKeys(id)}
                \cup {[err |-> "Key identifier does not exist", key |-> NoFetch]}
      [] srv[id] = "unauth" -> {[err |-> "User or machine not authorized", key |-> NoFetch]}
      [] OTHER -> {[err |-> "Key identifier does not exist", key |-> NoFetch]}

\* json.Marshal(key), were the VersionHash left out of the bytes.
MarshalNoHash(key) == FullKey(key.ID, "")

\* json.Marshal(key)
Marshal(key) == FullKey(key.ID, key.VersionHash)

\* cli.CacheGetKey: the cached file parsed; a file that is no complete key is an error.
CacheGetKey(d, id) ==
    IF d[id].k = "key" /\ d[id].id # "" /\ d[id].h # ""
    THEN [err |-> FALSE, VersionHash |-> d[id].h]
    ELSE [err |-> TRUE, VersionHash |-> ""]

\* ----------------------------------------------------------------- KeysFile

\* KeysFile.Get: the fields of the file, in order.
KeysFile_Get(file) == file

\* KeysFile.Remove, were the remaining ids written as the file lists them.
KeysFile_RemoveKeepsRepeats(file, ks) ==
    {SelectSeq(KeysFile_Get(file), LAMBDA k : k \notin Range(ks))}

\* KeysFile.Remove: what it writes (always), in each order the map may give.
KeysFile_Remove(file, ks) ==
    LET oldKeys == KeysFile_Get(file)
        newKeys == {oldKeys[i] : i \in {j \in 1..Len(oldKeys) : oldKeys[j] \notin Range(ks)}}
    IN Orders(newKeys)

\* KeysFile.Add: what it writes, or the file as it is when it does not write.
KeysFile_Add(file, ks) ==
    LET oldKeys == KeysFile_Get(file)
        newKeys == Range(oldKeys) \cup Range(ks)
    IN IF Cardinality(newKeys) = Len(oldKeys)
       THEN [write |-> FALSE, out |-> {file}]
       ELSE [write |-> TRUE, out |-> Orders(newKeys)]

\* KeysFile.Overwrite: what it writes.
KeysFile_Overwrite(ks) == Orders(Range(ks))

\* flock: the lock is granted when no other process holds it.
CanLock(other) == ~other

\* KeysFile.Lock were it to return nil without taking the file lock.
LockSkipped(other) == TRUE

\* KeysFile.Lock: TryLockContext retries until the lock is granted or the timeout.
KeysFile_Lock(other) == CanLock(other)

\* ------------------------------------------------------- update() bookkeeping

NewRun ==
    [locked |-> FALSE, regRead |-> FALSE, dirRead |-> FALSE, rmFailed |-> FALSE, deleted |-> {},
     srvCalled |-> FALSE, diskTouched |-> FALSE, wrote |-> FALSE, keyErrs |-> 0,
     regRemoved |-> FALSE, updatedEmpty |-> FALSE, srvFault |-> FALSE, fsFault |-> FALSE,
     unlocked |-> FALSE, result |-> "running"]

NoDisk == [id \in KeyIDs |-> NoFile]
NoHist == [valid |-> FALSE, removed |-> FALSE, disk |-> NoDisk]
NoCur == [id |-> "", err |-> "nil", b |-> NoFile, pre |-> NoFile]

\* loop() before its first update(): the ticker's channel (of capacity one) is empty,
\* the watcher has no event to deliver. `owed` tells that a tick or an event came
\* after the latest update() started; `iterations` counts the returns of update().
NoWake == [tick |-> FALSE, events |-> 0, waiting |-> FALSE, owed |-> FALSE, iterations |-> 0]

\* One more completed update() in the history.
Completed(r, d) ==
    [prev |-> hist.cur,
     cur |-> IF r.result = "nil" /\ ~r.srvFault /\ ~r.fsFault
             THEN [valid |-> TRUE, removed |-> r.regRemoved, disk |-> d]
             ELSE NoHist]

\* The deferred Unlock of update(), were it missing on the error returns.
UnlockOnlyOnSuccess(err) == IF err = "nil" THEN FALSE ELSE dHolds

\* The deferred Unlock of update(): the lock is released on every return.
DeferredUnlock(err) == FALSE

\* update() returns err to loop(), which counts the iteration and goes to its select.
UpdateReturns(err, r) ==
    /\ dHolds' = DeferredUnlock(err)
    /\ dpc' = "idle"
    /\ counts' = IF err = "nil"
                 THEN [counts EXCEPT !.successCount = @ + 1]
                 ELSE [counts EXCEPT !.updateErrCount = @ + 1]
    /\ run' = [r EXCEPT !.result = err]
    /\ hist' = Completed([r EXCEPT !.result = err], disk')
    /\ wake' = [wake EXCEPT !.waiting = TRUE,
                            !.owed = IF dpc = "idle" THEN FALSE ELSE @,
                            !.iterations = @ + 1]


\* update(): d.registerKeyFile.Lock() succeeds.
update_Lock ==
    /\ dpc = "idle" /\ ~wake.waiting
    /\ UNCHANGED srvVars
    /\ wake' = [wake EXCEPT !.owed = FALSE]
    /\ counts.updateErrCount + counts.successCount < MaxRuns
    /\ KeysFile_Lock(cHolds)
    /\ dHolds' = TRUE
    /\ dpc' = "locked"
    /\ run' = [NewRun EXCEPT !.locked = TRUE]
    /\ keyIDs' = <<>> /\ keyMap' = <<>> /\ updatedKeys' = {} /\ curKey' = NoCur
    /\ UNCHANGED <<regFile, regStable, disk, tmp, cHolds, srv, counts, cli, hist>>

\* update(): Lock() times out and update() returns its error.
update_LockFails ==
    /\ dpc = "idle" /\ ~wake.waiting
    /\ UNCHANGED srvVars
    /\ counts.updateErrCount + counts.successCount < MaxRuns
    /\ ~KeysFile_Lock(cHolds)
    /\ keyIDs' = <<>> /\ keyMap' = <<>> /\ updatedKeys' = {} /\ curKey' = NoCur
    /\ disk' = disk
    /\ UpdateReturns("err", NewRun)
    /\ UNCHANGED <<regFile, regStable, tmp, cHolds, srv, cli>>

\* update(): Get() reads the register file.
update_Get ==
    /\ dpc = "locked"
    /\ UNCHANGED <<srvVars, wake>>
    /\ keyIDs' = KeysFile_Get(regFile)
    /\ dpc' = "gotIDs"
    /\ run' = [run EXCEPT !.regRead = TRUE, !.unlocked = @ \/ ~dHolds]
    /\ UNCHANGED <<regFile, regStable, disk, tmp, dHolds, cHolds, srv, keyMap,
                   updatedKeys, curKey, counts, cli, hist>>

\* update(): Get() fails and update() returns its error.
update_GetFails ==
    /\ dpc = "locked"
    /\ UNCHANGED srvVars
    /\ disk' = disk
    /\ UpdateReturns("err", [run EXCEPT !.fsFault = TRUE, !.unlocked = @ \/ ~dHolds])
    /\ UNCHANGED <<regFile, regStable, tmp, cHolds, srv, keyIDs, keyMap,
                   updatedKeys, curKey, cli>>

\* deleteKey, were it to leave the file where it is.
deleteKeyNoop(d, keyID) == d

\* deleteKey: os.Remove of the key's file.
deleteKey(d, keyID) == [d EXCEPT ![keyID] = NoFile]

\* update()'s loop over the directory, were it to delete every file it meets.
EveryFile(registered, d, keyID) == TRUE

\* update()'s loop over the directory deletes a file whose id is not registered, and
\* a registered one that CacheGetKey cannot parse.
StaleOrUnregistered(registered, d, keyID) ==
    keyID \notin registered \/ CacheGetKey(d, keyID).err

\* update(): the directory is listed; every cached file that is not registered, or
\* that does not parse, is removed (a removal in rmFail fails, and is ignored); the
\* request map gets the cached hash of every registered id whose file parses.
update_Scan ==
    /\ dpc = "gotIDs"
    /\ UNCHANGED <<srvVars, wake>>
    /\ \E rmFail \in SUBSET KeyIDs :
          LET registered == Range(keyIDs)
              currentKeyIDs == {id \in KeyIDs : disk[id] # NoFile}
              toDelete == {id \in currentKeyIDs : StaleOrUnregistered(registered, disk, id)}
          IN /\ rmFail \subseteq toDelete
             /\ disk' = [id \in KeyIDs |->
                            IF id \in toDelete \ rmFail THEN deleteKey(disk, id)[id]
                            ELSE disk[id]]
             /\ keyMap' = [id \in registered |->
                              IF id \in currentKeyIDs /\ ~CacheGetKey(disk, id).err
                              THEN CacheGetKey(disk, id).VersionHash
                              ELSE ""]
             /\ run' = [run EXCEPT !.dirRead = TRUE,
                                   !.diskTouched = @ \/ toDelete # {},
                                   !.rmFailed = rmFail # {},
                                   !.deleted = toDelete \ rmFail,
                                   !.fsFault = @ \/ rmFail # {}]
    /\ dpc' = "scanned"
    /\ UNCHANGED <<regFile, regStable, tmp, dHolds, cHolds, srv, keyIDs,
                   updatedKeys, curKey, counts, cli, hist>>

\* update(): the directory cannot be listed and update() returns the error.
update_ReadDirFails ==
    /\ dpc = "gotIDs"
    /\ UNCHANGED srvVars
    /\ disk' = disk
    /\ UpdateReturns("err", [run EXCEPT !.fsFault = TRUE])
    /\ UNCHANGED <<regFile, regStable, tmp, cHolds, srv, keyIDs, keyMap,
                   updatedKeys, curKey, cli>>

\* update(): with a non-empty request map, GetKeys answers with the updated ids.
update_GetKeys ==
    /\ dpc = "scanned"
    /\ UNCHANGED <<srvVars, wake>>
    /\ IF ~NeedsServerCall(keyMap)
       THEN /\ updatedKeys' = {}
            /\ run' = run
       ELSE /\ updatedKeys' = getKeysHandler(keyMap)
            /\ run' = [run EXCEPT !.srvCalled = TRUE,
                                  !.updatedEmpty = getKeysHandler(keyMap) = {}]
    /\ dpc' = "loop"
    /\ UNCHANGED <<regFile, regStable, disk, tmp, dHolds, cHolds, srv, keyIDs, keyMap,
                   curKey, counts, cli, hist>>

\* update(): GetKeys fails and update() returns the error.
update_GetKeysFails ==
    /\ dpc = "scanned"
    /\ UNCHANGED srvVars
    /\ NeedsServerCall(keyMap)
    /\ disk' = disk
    /\ UpdateReturns("err", [run EXCEPT !.srvCalled = TRUE, !.srvFault = TRUE])
    /\ UNCHANGED <<regFile, regStable, tmp, cHolds, srv, keyIDs, keyMap,
                   updatedKeys, curKey, cli>>

\* update(): every updated key is processed; update() returns nil.
update_Done ==
    /\ dpc = "loop"
    /\ UNCHANGED srvVars
    /\ updatedKeys = {}
    /\ disk' = disk
    /\ UpdateReturns("nil", run)
    /\ UNCHANGED <<regFile, regStable, tmp, cHolds, srv, keyIDs, keyMap,
                   updatedKeys, curKey, cli>>

\* processKey returned an error to update()'s loop, which counts it and goes on.
ProcessKeyFails(r) ==
    /\ dpc' = "loop"
    /\ updatedKeys' = updatedKeys \ {curKey'.id}
    /\ counts' = [counts EXCEPT !.getKeyErrCount = @ + 1]
    /\ run' = [r EXCEPT !.keyErrs = @ + 1]

\* processKey's test of the content, were every key let through.
InvalidContentNever(key) == FALSE

\* processKey's test of the content of the key it fetched.
InvalidContent(key) ==
    key.ID = "" \/ key.aclNil \/ key.vlNil \/ key.VersionHash = ""

\* processKey(k) up to the marshalled key: the fetch, the removal of an id the
\* server refuses, the check of the content.
processKey_Fetch ==
    /\ dpc = "loop"
    /\ UNCHANGED <<srvVars, wake>>
    /\ \E k \in updatedKeys : \E got \in NetworkGetKey(k) :
          /\ curKey' = [id |-> k,
                        err |-> IF got.err = "nil" /\ InvalidContent(got.key)
                                THEN "invalid key content returned" ELSE got.err,
                        b |-> Marshal(got.key), pre |-> disk[k]]
          /\ IF got.err # "nil"
             THEN IF got.err = "User or machine not authorized"
                     \/ got.err = "Key identifer does not exist"
                  THEN /\ \E w \in KeysFile_Remove(regFile, <<k>>) :
                             regFile' = w /\ regStable' = w
                       /\ ProcessKeyFails([run EXCEPT !.regRemoved = TRUE,
                                                      !.unlocked = @ \/ ~dHolds])
                  ELSE /\ UNCHANGED <<regFile, regStable>>
                       /\ ProcessKeyFails([run EXCEPT !.srvFault = TRUE])
             ELSE IF InvalidContent(got.key)
             THEN /\ UNCHANGED <<regFile, regStable>>
                  /\ ProcessKeyFails([run EXCEPT !.srvFault = TRUE])
             ELSE /\ dpc' = "fetched"
                  /\ UNCHANGED <<regFile, regStable, updatedKeys, counts, run>>
    /\ UNCHANGED <<disk, tmp, dHolds, cHolds, srv, keyIDs, keyMap, cli, hist>>

\* processKey: os.CreateTemp.
processKey_CreateTemp ==
    /\ dpc = "fetched"
    /\ UNCHANGED <<srvVars, wake>>
    /\ tmp' = PartialKey("", "")
    /\ dpc' = "tmpOpen"
    /\ UNCHANGED <<regFile, regStable, disk, dHolds, cHolds, srv, keyIDs, keyMap,
                   updatedKeys, curKey, counts, cli, run, hist>>

processKey_CreateTempFails ==
    /\ dpc = "fetched"
    /\ UNCHANGED <<srvVars, wake>>
    /\ curKey' = [curKey EXCEPT !.err = "Error opening tmp file"]
    /\ ProcessKeyFails([run EXCEPT !.fsFault = TRUE])
    /\ UNCHANGED <<regFile, regStable, disk, tmp, dHolds, cHolds, srv, keyIDs, keyMap,
                   cli, hist>>

\* processKey: tmpFile.Write and Close.
processKey_Write ==
    /\ dpc = "tmpOpen"
    /\ UNCHANGED <<srvVars, wake>>
    /\ tmp' = curKey.b
    /\ dpc' = "written"
    /\ UNCHANGED <<regFile, regStable, disk, dHolds, cHolds, srv, keyIDs, keyMap,
                   updatedKeys, curKey, counts, cli, run, hist>>

\* processKey: tmpFile.Write fails having written part of the bytes.
processKey_WriteFails ==
    /\ dpc = "tmpOpen"
    /\ UNCHANGED <<srvVars, wake>>
    /\ tmp' \in {PartialKey("", ""), PartialKey(curKey.b.id, curKey.b.h)}
    /\ dpc' = "writeErr"
    /\ UNCHANGED <<regFile, regStable, disk, dHolds, cHolds, srv, keyIDs, keyMap,
                   updatedKeys, curKey, counts, cli, run, hist>>

\* After a failed write the temp file were moved into place.
AfterWriteErrorRename(d, k, t) == [d EXCEPT ![k] = t]

\* After a failed write the temp file is closed and removed: the key directory is as it was.
AfterWriteError(d, k, t) == d

processKey_WriteFailsCleanup ==
    /\ dpc = "writeErr"
    /\ UNCHANGED <<srvVars, wake>>
    /\ disk' = AfterWriteError(disk, curKey.id, tmp)
    /\ tmp' = NoFile
    /\ curKey' = [curKey EXCEPT !.err = "Error writing key to file"]
    /\ ProcessKeyFails([run EXCEPT !.fsFault = TRUE])
    /\ UNCHANGED <<regFile, regStable, dHolds, cHolds, srv, keyIDs, keyMap, cli, hist>>

\* processKey: os.Rename moves the temp file to the key's path in one step.
processKey_Rename ==
    /\ dpc = "written"
    /\ UNCHANGED <<srvVars, wake>>
    /\ disk' = [disk EXCEPT ![curKey.id] = tmp]
    /\ tmp' = NoFile
    /\ dpc' = "renamed"
    /\ run' = [run EXCEPT !.wrote = TRUE, !.diskTouched = TRUE]
    /\ UNCHANGED <<regFile, regStable, dHolds, cHolds, srv, keyIDs, keyMap,
                   updatedKeys, curKey, counts, cli, hist>>

\* processKey: os.Rename fails; the temp file is removed.
processKey_RenameFails ==
    /\ dpc = "written"
    /\ UNCHANGED <<srvVars, wake>>
    /\ tmp' = NoFile
    /\ curKey' = [curKey EXCEPT !.err = "Error renaming temporary file"]
    /\ ProcessKeyFails([run EXCEPT !.fsFault = TRUE])
    /\ UNCHANGED <<regFile, regStable, disk, dHolds, cHolds, srv, keyIDs, keyMap,
                   cli, hist>>

\* processKey: os.Chmod, and processKey returns nil.
processKey_Chmod ==
    /\ dpc = "renamed"
    /\ UNCHANGED <<srvVars, wake>>
    /\ dpc' = "loop"
    /\ updatedKeys' = updatedKeys \ {curKey.id}
    /\ UNCHANGED <<regFile, regStable, disk, tmp, dHolds, cHolds, srv, keyIDs, keyMap,
                   curKey, counts, cli, run, hist>>

processKey_ChmodFails ==
    /\ dpc = "renamed"
    /\ UNCHANGED <<srvVars, wake>>
    /\ curKey' = [curKey EXCEPT !.err = "Failed to open up key file permissions"]
    /\ ProcessKeyFails([run EXCEPT !.fsFault = TRUE])
    /\ UNCHANGED <<regFile, regStable, disk, tmp, dHolds, cHolds, srv, keyIDs, keyMap,
                   cli, hist>>

\* ------------------------------------------------------------------ loop()
\* loop() calls update(), counts its result, and waits in a select for a tick of
\* the ticker or an event of the watcher of the register file before it goes round.

\* The calls of update() made so far.
Started ==
    counts.updateErrCount + counts.successCount + (IF dpc = "idle" THEN 0 ELSE 1)

\* The select of loop(), were only the ticker's case in it.
WakeOnlyOnTick(w) == w.tick

\* The select of loop() can proceed: an event or a tick is there to receive.
WakeAvailable(w) == w.events > 0 \/ w.tick

\* time.Ticker: a tick goes into the channel, or is dropped when one is there.
ticker_Tick ==
    /\ Started < MaxRuns
    /\ wake' = [wake EXCEPT !.tick = TRUE, !.owed = TRUE]
    /\ UNCHANGED <<srvVars, regFile, regStable, disk, tmp, dHolds, cHolds, srv, dpc,
                   keyIDs, keyMap, updatedKeys, curKey, counts, cli, run, hist>>

\* fsnotify: one more event on the register file waits to be received.
watcher_Event ==
    /\ Started < MaxRuns
    /\ wake.events < MaxEvents
    /\ wake' = [wake EXCEPT !.events = @ + 1, !.owed = TRUE]
    /\ UNCHANGED <<srvVars, regFile, regStable, disk, tmp, dHolds, cHolds, srv, dpc,
                   keyIDs, keyMap, updatedKeys, curKey, counts, cli, run, hist>>

\* loop(): the select receives one event or the tick (then the jitter and the
\* metrics report), and the for loop goes round.
loop_Select ==
    /\ dpc = "idle" /\ wake.waiting
    /\ WakeAvailable(wake)
    /\ \/ wake.events > 0
          /\ wake' = [wake EXCEPT !.events = @ - 1, !.waiting = FALSE]
       \/ wake.tick
          /\ wake' = [wake EXCEPT !.tick = FALSE, !.waiting = FALSE]
    /\ UNCHANGED <<srvVars, regFile, regStable, disk, tmp, dHolds, cHolds, srv, dpc,
                   keyIDs, keyMap, updatedKeys, curKey, counts, cli, run, hist>>

\* loop(): a tick or an event comes while the select waits and is received at once.
loop_Wake ==
    /\ dpc = "idle" /\ wake.waiting
    /\ ~WakeAvailable(wake)
    /\ wake' = [wake EXCEPT !.waiting = FALSE]
    /\ UNCHANGED <<srvVars, regFile, regStable, disk, tmp, dHolds, cHolds, srv, dpc,
                   keyIDs, keyMap, updatedKeys, curKey, counts, cli, run, hist>>

\* ------------------------------------------------------ the external writer
\* The register/unregister commands: Lock, one of Add, Remove, Overwrite, Unlock.
\* os.WriteFile truncates the file and then writes the buffer.

CliIDs == {<<"k1">>, <<"k2">>}

NoCli == [pc |-> "idle", buf |-> <<>>, ops |-> 0, op |-> "none", ks |-> <<>>]

cli_Lock ==
    /\ cli.pc = "idle"
    /\ UNCHANGED <<srvVars, wake>>
    /\ cli.ops < MaxCliOps
    /\ KeysFile_Lock(dHolds)
    /\ cHolds' = TRUE
    /\ cli' = [cli EXCEPT !.pc = "locked"]
    /\ UNCHANGED <<regFile, regStable, disk, tmp, dHolds, srv, dpc, keyIDs, keyMap,
                   updatedKeys, curKey, counts, run, hist>>

\* The operation op(ks) up to os.WriteFile's truncation of the file.
CliTruncate(op, ks, buf) ==
    /\ regFile' = <<>>
    /\ cli' = [cli EXCEPT !.pc = "writing", !.buf = buf, !.op = op, !.ks = ks]
    /\ hist' = [prev |-> NoHist, cur |-> NoHist]
    /\ UNCHANGED regStable

cli_Add(ks) ==
    /\ cli.pc = "locked"
    /\ UNCHANGED <<srvVars, wake>>
    /\ LET a == KeysFile_Add(regFile, ks)
       IN IF a.write
          THEN \E buf \in a.out : CliTruncate("Add", ks, buf)
          ELSE /\ cli' = [cli EXCEPT !.pc = "written", !.op = "Add", !.ks = ks]
               /\ UNCHANGED <<regFile, regStable, hist>>
    /\ UNCHANGED <<disk, tmp, dHolds, cHolds, srv, dpc, keyIDs, keyMap,
                   updatedKeys, curKey, counts, run>>

cli_Remove(ks) ==
    /\ cli.pc = "locked"
    /\ UNCHANGED <<srvVars, wake>>
    /\ \E buf \in KeysFile_Remove(regFile, ks) : CliTruncate("Remove", ks, buf)
    /\ UNCHANGED <<disk, tmp, dHolds, cHolds, srv, dpc, keyIDs, keyMap,
                   updatedKeys, curKey, counts, run>>

cli_Overwrite(ks) ==
    /\ cli.pc = "locked"
    /\ UNCHANGED <<srvVars, wake>>
    /\ \E buf \in KeysFile_Overwrite(ks) : CliTruncate("Overwrite", ks, buf)
    /\ UNCHANGED <<disk, tmp, dHolds, cHolds, srv, dpc, keyIDs, keyMap,
                   updatedKeys, curKey, counts, run>>

\* os.WriteFile writes the buffer, an id at a time.
cli_Write ==
    /\ cli.pc = "writing"
    /\ UNCHANGED <<srvVars, wake>>
    /\ IF Len(regFile) < Len(cli.buf)
       THEN /\ regFile' = Append(regFile, cli.buf[Len(regFile) + 1])
            /\ UNCHANGED <<cli, regStable>>
       ELSE /\ regStable' = regFile
            /\ cli' = [cli EXCEPT !.pc = "written", !.buf = <<>>]
            /\ UNCHANGED regFile
    /\ UNCHANGED <<disk, tmp, dHolds, cHolds, srv, dpc, keyIDs, keyMap,
                   updatedKeys, curKey, counts, run, hist>>

cli_Unlock ==
    /\ cli.pc = "written"
    /\ UNCHANGED <<srvVars, wake>>
    /\ cHolds' = FALSE
    /\ cli' = [cli EXCEPT !.pc = "idle", !.ops = @ + 1, !.op = "none", !.ks = <<>>]
    /\ UNCHANGED <<regFile, regStable, disk, tmp, dHolds, srv, dpc, keyIDs, keyMap,
                   updatedKeys, curKey, counts, run, hist>>

\* ------------------------------------------------------------ specification

EmptyStore == [k \in {} |-> NoKey]

InitServer ==
    /\ keys = EmptyStore
    /\ serverUp = TRUE
    /\ pc = [t \in Threads |-> "idle"]
    /\ req = [t \in Threads |-> NoReq]
    /\ authz = [t \in Threads |-> NoAuthz]
    /\ last = [req |-> NoReq, code |-> "none", body |-> NullBody, authz |-> NoAuthz]

\* The second steps of the handlers that mutate after authorizing.
Mutation(t) ==
    \/ deleteKeyHandler_DeleteKey(t)
    \/ putAccessHandler_UpdateAccess(t)
    \/ postVersionHandler_AddVersion(t)
    \/ putVersionsHandler_UpdateVersion(t)

\* The key directory, register file and daemon of a host where none of them is in use.
DaemonStopped ==
    /\ regFile = <<>> /\ regStable = <<>>
    /\ disk = NoDisk /\ tmp = NoFile
    /\ dHolds = FALSE /\ cHolds = FALSE
    /\ srv = [id \in KeyIDs |-> "missing"]
    /\ dpc = "idle"
    /\ keyIDs = <<>> /\ keyMap = <<>> /\ updatedKeys = {} /\ curKey = NoCur
    /\ counts = [updateErrCount |-> 0, successCount |-> 0, getKeyErrCount |-> 0]
    /\ cli = NoCli
    /\ run = NewRun
    /\ hist = [prev |-> NoHist, cur |-> NoHist]
    /\ wake = NoWake

\* Spec: the authorization pipeline. Alice creates the key (and so is its Admin),
\* Mallory holds what put-access grants her; the access callback may be installed.
Users == {Alice, Mallory}

Init ==
    /\ InitServer
    /\ accessCallback \in {"nil", "installed"}
    /\ DaemonStopped

Next ==
    \E t \in Threads :
        \/ postKeysHandler(t, PostKeysReq(Alice, "k1", "aGk=", NoAcl))
        \/ \E p \in Users, cb \in CallbackOutcomes : getKeyHandler(t, GetKeyReq(p, Absent), cb)
        \/ \E p \in Users, cb \in CallbackOutcomes : deleteKeyHandler(t, DeleteKeyReq(p), cb)
        \/ \E p \in Users, cb \in CallbackOutcomes, at \in {"Write", "None"} :
              putAccessHandler(t, PutAccessReq(p, OkAccess(Rule("User", "mallory", at)), NoAcl), cb)
        \/ \E p \in Users, cb \in CallbackOutcomes : postVersionHandler(t, PostVersionReq(p, "aGk="), cb)
        \/ \E p \in Users, cb \in CallbackOutcomes, st \in {"Active", "Inactive"} :
              putVersionsHandler(t, PutVersionReq(p, "2", st), cb)
        \/ Mutation(t)

vars == <<srvVars, dVars>>

Spec == Init /\ [][Next]_vars

\* VersionSpec: the version lifecycle. No callback is installed; Alice and Mallory
\* add versions and change their status while put-access grants Mallory Write.
VersionIDParams == {"1", "2", "3", "x"}

VersionInit ==
    /\ InitServer
    /\ accessCallback = "nil"
    /\ DaemonStopped

VersionNext ==
    \E t \in Threads :
        \/ postKeysHandler(t, PostKeysReq(Alice, "k1", "aGk=", NoAcl))
        \/ putAccessHandler(t, PutAccessReq(Alice, OkAccess(Rule("User", "mallory", "Write")), NoAcl), "deny")
        \/ \E p \in Users : postVersionHandler(t, PostVersionReq(p, "aGk="), "deny")
        \/ \E p \in Users, vid \in VersionIDParams, st \in {"Primary", "Active", "Inactive"} :
              putVersionsHandler(t, PutVersionReq(p, vid, st), "deny")
        \/ putAccessHandler_UpdateAccess(t)
        \/ postVersionHandler_AddVersion(t)
        \/ putVersionsHandler_UpdateVersion(t)

VersionSpec == VersionInit /\ [][VersionNext]_vars

\* CreateSpec: key creation. Users and a machine send create-key requests with
\* every shape of id, data and acl parameter; the key's admin deletes it again.
CreateIDs == {Absent, "k1", "k 2"}

CreateData == {Absent, "", LF, "aGk=", "%"}

CreateAcls ==
    {NoAcl, BadAcl, OkAcl(<<>>),
     OkAcl(<<Rule("User", "alice", "Read")>>),
     OkAcl(<<Rule("User", "mallory", "Read"), Rule("User", "mallory", "Write")>>),
     OkAcl(<<Rule("User", "", "Read")>>),
     OkAcl(<<Rule("User", "bob", "None")>>)}

\* A machine sends every combination of the parameters; a user sends a well-formed
\* request with one parameter varied.
CreateRequests ==
    {PostKeysReq(Host1, id, data, acl) : id \in CreateIDs, data \in CreateData, acl \in CreateAcls}
    \cup {PostKeysReq(p, id, "aGk=", NoAcl) : p \in Users, id \in CreateIDs}
    \cup {PostKeysReq(p, "k1", data, NoAcl) : p \in Users, data \in CreateData}
    \cup {PostKeysReq(p, "k1", "aGk=", acl) : p \in Users, acl \in CreateAcls}

CreateInit ==
    /\ InitServer
    /\ accessCallback = "nil"
    /\ DaemonStopped

CreateNext ==
    \E t \in Threads :
        \/ \E r \in CreateRequests : postKeysHandler(t, r)
        \/ \E p \in Users : deleteKeyHandler(t, DeleteKeyReq(p), "deny")
        \/ deleteKeyHandler_DeleteKey(t)

CreateSpec == CreateInit /\ [][CreateNext]_vars

\* AccessSpec: the ACL of a key. Alice creates the key with every shape of acl
\* parameter; she and Mallory send put-access requests carrying neither, one or both
\* of the parameters access and acl.
PutAccessParams ==
    {<<NoAccess, NoAcl>>, <<BadAccess, NoAcl>>, <<NoAccess, BadAcl>>,
     <<OkAccess(Rule("User", "mallory", "Write")), NoAcl>>,
     <<OkAccess(Rule("User", "mallory", "None")), NoAcl>>,
     <<OkAccess(Rule("User", "", "Read")), NoAcl>>,
     <<NoAccess, OkAcl(<<Rule("User", "mallory", "Read"), Rule("User", "", "Write")>>)>>,
     <<NoAccess, OkAcl(<<Rule("User", "bob", "Read"), Rule("User", "", "None")>>)>>,
     <<OkAccess(Rule("User", "mallory", "Write")), OkAcl(<<Rule("User", "bob", "Read")>>)>>,
     <<OkAccess(Rule("User", "mallory", "None")), BadAcl>>}

AccessInit ==
    /\ InitServer
    /\ accessCallback = "nil"
    /\ DaemonStopped

AccessNext ==
    \E t \in Threads :
        \/ \E acl \in CreateAcls : postKeysHandler(t, PostKeysReq(Alice, "k1", "aGk=", acl))
        \/ \E p \in Users, b \in PutAccessParams :
              putAccessHandler(t, PutAccessReq(p, b[1], b[2]), "deny")
        \/ putAccessHandler_UpdateAccess(t)

AccessSpec == AccessInit /\ [][AccessNext]_vars

\* DaemonSpec: the daemon's update() against a server whose state stays as it is
\* (every key exists, is refused, or is missing), in a key directory holding current,
\* older and unparsable files, with the register command writing the register file.
RegisterFiles == UNION {[1..n -> KeyIDs] : n \in 0..MaxRegLen}

CachedFiles(id) == {NoFile, Legacy, FullKey(id, "H0"), FullKey(id, SrvHash(id))}

DaemonInit ==
    /\ InitServer
    /\ accessCallback = "nil"
    /\ regFile \in RegisterFiles /\ regStable = regFile
    /\ disk \in {d \in [KeyIDs -> UNION {CachedFiles(id) : id \in KeyIDs}] :
                    \A id \in KeyIDs : d[id] \in CachedFiles(id)}
    /\ tmp = NoFile
    /\ dHolds = FALSE /\ cHolds = FALSE
    /\ srv \in [KeyIDs -> {"ok", "unauth", "missing"}]
    /\ dpc = "idle"
    /\ keyIDs = <<>> /\ keyMap = <<>> /\ updatedKeys = {} /\ curKey = NoCur
    /\ counts = [updateErrCount |-> 0, successCount |-> 0, getKeyErrCount |-> 0]
    /\ cli = NoCli
    /\ run = NewRun
    /\ hist = [prev |-> NoHist, cur |-> NoHist]
    /\ wake = NoWake

update ==
    \/ update_Lock
    \/ update_LockFails
    \/ update_Get
    \/ update_GetFails
    \/ update_Scan
    \/ update_ReadDirFails
    \/ update_GetKeys
    \/ update_GetKeysFails
    \/ update_Done

processKey ==
    \/ processKey_Fetch
    \/ processKey_CreateTemp
    \/ processKey_CreateTempFails
    \/ processKey_Write
    \/ processKey_WriteFails
    \/ processKey_WriteFailsCleanup
    \/ processKey_Rename
    \/ processKey_RenameFails
    \/ processKey_Chmod
    \/ processKey_ChmodFails

RegisterCommand ==
    \/ cli_Lock
    \/ \E ks \in CliIDs : cli_Add(ks)
    \/ \E ks \in CliIDs : cli_Remove(ks)
    \/ \E ks \in CliIDs : cli_Overwrite(ks)
    \/ cli_Write
    \/ cli_Unlock

DaemonNext == update \/ processKey \/ loop_Wake \/ RegisterCommand

DaemonSpec == DaemonInit /\ [][DaemonNext]_vars

\* RegisterSpec: the register file alone. It starts with any content, repeated ids
\* included, and the register command applies Add, Remove or Overwrite to it under
\* the file lock while the daemon is not running.
RegisterInit ==
    /\ InitServer
    /\ accessCallback = "nil"
    /\ regFile \in RegisterFiles /\ regStable = regFile
    /\ disk = NoDisk /\ tmp = NoFile
    /\ dHolds = FALSE /\ cHolds = FALSE
    /\ srv = [id \in KeyIDs |-> "missing"]
    /\ dpc = "idle"
    /\ keyIDs = <<>> /\ keyMap = <<>> /\ updatedKeys = {} /\ curKey = NoCur
    /\ counts = [updateErrCount |-> 0, successCount |-> 0, getKeyErrCount |-> 0]
    /\ cli = NoCli
    /\ run = NewRun
    /\ hist = [prev |-> NoHist, cur |-> NoHist]
    /\ wake = NoWake

\* The id lists the command is given: any list, empty or with an id twice.
RegisterArgs == UNION {[1..n -> KeyIDs] : n \in 0..MaxRegLen}

RegisterNext ==
    \/ cli_Lock
    \/ \E ks \in RegisterArgs : cli_Add(ks)
    \/ \E ks \in RegisterArgs : cli_Remove(ks)
    \/ \E ks \in RegisterArgs : cli_Overwrite(ks)
    \/ cli_Write
    \/ cli_Unlock

RegisterSpec == RegisterInit /\ [][RegisterNext]_vars

\* LoopSpec: loop() with its ticker and its watcher, on a host where nothing else
\* writes the register file. The daemon's goroutine keeps running: a step of
\* loop(), update() or processKey that can be taken is taken.
LoopInit ==
    /\ InitServer
    /\ accessCallback = "nil"
    /\ regFile \in {<<>>, <<"k1">>} /\ regStable = regFile
    /\ disk = NoDisk /\ tmp = NoFile
    /\ dHolds = FALSE /\ cHolds = FALSE
    /\ srv \in [KeyIDs -> {"ok", "missing"}]
    /\ dpc = "idle"
    /\ keyIDs = <<>> /\ keyMap = <<>> /\ updatedKeys = {} /\ curKey = NoCur
    /\ counts = [updateErrCount |-> 0, successCount |-> 0, getKeyErrCount |-> 0]
    /\ cli = NoCli
    /\ run = NewRun
    /\ hist = [prev |-> NoHist, cur |-> NoHist]
    /\ wake = NoWake

loop ==
    \/ update_Lock
    \/ update_Get
    \/ update_GetFails
    \/ update_Scan
    \/ update_ReadDirFails
    \/ update_GetKeys
    \/ update_GetKeysFails
    \/ update_Done
    \/ processKey
    \/ loop_Select

LoopNext == ticker_Tick \/ watcher_Event \/ loop

LoopSpec == LoopInit /\ [][LoopNext]_vars /\ WF_vars(loop)

\* ================================================================== claims

\* The step in which thread t's handler calls its Key Manager mutation and returns.
MutationStep(t, h) == pc[t] = "authorized" /\ req[t].h = h /\ pc'[t] = "idle"

\* ---------------------------------------------------------------------- C1
\* C1: under every interleaving of create-key, add-version, update-version-status
\* and put-access requests, every key of the store has exactly one Primary version
\* in every state; and the step of an update-version request that asks Primary for
\* an Active version v leaves v Primary and the version that was Primary Active.
C1_Promotes(t, id, v, w) ==
    /\ MutationStep(t, "putversion")
    /\ req[t].keyID = id /\ req[t].status = "Primary"
    /\ ParseUint(req[t].versionID).n = v
    /\ v \in VersionIDs(keys[id].VersionList) /\ w \in VersionIDs(keys[id].VersionList)
    /\ StatusOf(keys[id].VersionList, v) = "Active"
    /\ StatusOf(keys[id].VersionList, w) = "Primary"

C1_ExactlyOnePrimary ==
    /\ [](\A id \in DOMAIN keys : NumPrimary(keys[id].VersionList) = 1)
    /\ [][\A t \in Threads, id \in DOMAIN keys, v \in 1..MaxVersions, w \in 1..MaxVersions :
            C1_Promotes(t, id, v, w)
                => /\ last'.code = "OK"
                   /\ id \in DOMAIN keys'
                   /\ StatusOf(keys'[id].VersionList, v) = "Primary"
                   /\ StatusOf(keys'[id].VersionList, w) = "Active"
                   /\ NumPrimary(keys'[id].VersionList) = 1]_vars

\* A promotion has happened: version 2 is Primary and version 1, Primary before, is Active.
C1_Witness ==
    /\ "k1" \in DOMAIN keys
    /\ Len(keys["k1"].VersionList) = 2
    /\ StatusOf(keys["k1"].VersionList, 2) = "Primary"
    /\ StatusOf(keys["k1"].VersionList, 1) = "Active"
    /\ last.req.h = "putversion" /\ last.req.status = "Primary" /\ last.code = "OK"

\* ---------------------------------------------------------------------- C2
\* The access level a handler asks authorizeRequest for before its mutation.
C2_RequiredLevel(h) ==
    CASE h \in {"deletekey", "putaccess"} -> "Admin"
      [] h \in {"postversion", "putversion"} -> "Write"
      [] OTHER -> "None"

\* C2: a thread is at its Key Manager mutation only with an authorizeRequest answer
\* of allow = true, no error, for the level its handler requires (Admin for delete
\* and put-access, Write for add-version and update-version); the store changes only
\* in such a mutation step or by a create; and whenever authorizeRequest denied
\* without error, the response is Unauthorized with no body and the step that
\* returned it left the store as it was.
C2_MutationOnlyWhenAllowed ==
    /\ [](\A t \in Threads :
            pc[t] = "authorized"
                => /\ authz[t].called /\ authz[t].allow /\ ~authz[t].err
                   /\ authz[t].access = C2_RequiredLevel(req[t].h)
                   /\ authz[t].access # "None")
    /\ [](last.authz.called /\ ~last.authz.allow /\ ~last.authz.err
            => last.code = "Unauthorized" /\ last.body = NullBody)
    /\ [][keys' # keys
            => \/ last'.req.h = "postkeys"
               \/ /\ \E t \in Threads : MutationStep(t, last'.req.h)
                  /\ last'.authz.allow /\ ~last'.authz.err
                  /\ last'.authz.access = C2_RequiredLevel(last'.req.h)]_vars

\* Mallory, denied Admin by the ACL and by the callback, was answered Unauthorized
\* by delete-key while the key is still stored.
C2_Witness ==
    /\ last.req.h = "deletekey" /\ last.req.p = Mallory
    /\ last.authz.called /\ ~last.authz.allow /\ last.authz.cb = "deny"
    /\ last.code = "Unauthorized"
    /\ "k1" \in DOMAIN keys

\* ---------------------------------------------------------------------- C3
\* C3: when the ACL denies and the installed callback panics, authorizeRequest
\* answers allow = false with an error, the handler answers InternalServerError
\* with no body, the thread never reaches its mutation with that answer and the
\* store is as it was, and the server is still up (in every state).
C3_CallbackPanicIsInternalError ==
    /\ [](serverUp)
    /\ [](\A t \in Threads : authz[t].cb # "panic")
    /\ [](last.authz.cb = "panic"
            => /\ ~last.authz.allow /\ last.authz.err /\ ~last.authz.panicked
               /\ last.code = "InternalServerError"
               /\ last.body = NullBody)
    /\ [][last'.authz.cb = "panic" /\ last' # last => keys' = keys]_vars

\* A panic of the callback has been answered, and a later request is being served.
C3_Witness ==
    /\ last.authz.cb = "panic"
    /\ last.code = "InternalServerError"
    /\ serverUp
    /\ \E t \in Threads : pc[t] = "authorized"

\* ---------------------------------------------------------------------- C4
\* The update-version request that thread t is about to apply names version v,
\* whose status is `from`, and asks for status `to`.
C4_Asks(t, from, to) ==
    /\ MutationStep(t, "putversion")
    /\ req[t].keyID \in DOMAIN keys
    /\ req[t].status = to
    /\ ParseUint(req[t].versionID).n \in VersionIDs(keys[req[t].keyID].VersionList)
    /\ StatusOf(keys[req[t].keyID].VersionList, ParseUint(req[t].versionID).n) = from

C4_Unknown(t) ==
    /\ MutationStep(t, "putversion")
    /\ req[t].keyID \in DOMAIN keys
    /\ ParseUint(req[t].versionID).n \notin VersionIDs(keys[req[t].keyID].VersionList)

\* C4: an authorized update-version request asking Primary->Active,
\* Primary->Inactive or Inactive->Primary is answered BadRequestData and changes
\* nothing in the store; one naming a version the key does not have is answered
\* KeyVersionDoesNotExist and changes nothing.
C4_ForbiddenTransitions ==
    [][\A t \in Threads :
          /\ (C4_Asks(t, "Primary", "Active") \/ C4_Asks(t, "Primary", "Inactive")
                \/ C4_Asks(t, "Inactive", "Primary"))
                => last'.code = "BadRequestData" /\ keys' = keys
          /\ C4_Unknown(t)
                => last'.code = "KeyVersionDoesNotExist" /\ keys' = keys]_vars

\* Inactive->Primary has been refused: version 2 is still Inactive.
C4_Witness ==
    /\ last.req.h = "putversion" /\ last.req.status = "Primary" /\ last.req.versionID = "2"
    /\ last.code = "BadRequestData"
    /\ "k1" \in DOMAIN keys
    /\ Len(keys["k1"].VersionList) = 2
    /\ StatusOf(keys["k1"].VersionList, 2) = "Inactive"

\* ---------------------------------------------------------------------- C5
\* Every registered id that the server has and lets this machine read is cached
\* with the server's current VersionHash.
C5_Converged ==
    \A id \in Range(keyIDs) : srv[id] = "ok" => disk[id] = FullKey(id, SrvHash(id))

\* C5 as stated: after an update() that got the lock, was answered by the server
\* and returned nil, every registered id the machine may read is cached with the
\* server's hash.
C5_ConvergesWhenUpdateReturnsNil ==
    (dpc = "idle" /\ run.result = "nil" /\ ~run.srvFault) => C5_Converged

\* C5, amended: after an update() that returned nil and in which no processKey
\* returned an error (getKeyErrCount did not grow), every registered id that the
\* server has and the machine may read is cached with the server's current hash;
\* and an update() whose updated-list is empty writes no key file.
C5_ConvergesWhenNoKeyFailed ==
    /\ (dpc = "idle" /\ run.result = "nil" /\ run.keyErrs = 0) => C5_Converged
    /\ run.updatedEmpty => (~run.wrote /\ updatedKeys = {})

\* A second update() found nothing to fetch after the first, without a fault, had
\* left a registered key cached with the server's hash.
C5_Witness ==
    /\ dpc = "idle" /\ run.result = "nil" /\ run.keyErrs = 0
    /\ counts.successCount = 2
    /\ run.updatedEmpty /\ ~run.wrote
    /\ hist.prev.valid /\ hist.cur.valid
    /\ \E id \in Range(keyIDs) : srv[id] = "ok" /\ disk[id] = FullKey(id, SrvHash(id))

\* ---------------------------------------------------------------------- C6
\* No id outside the register file, as update() read it, has a cache file.
C6_NoUnregisteredFile ==
    \A id \in KeyIDs \ Range(keyIDs) : disk[id] = NoFile

C7_Idempotent ==
    (hist.prev.valid /\ hist.cur.valid) => hist.cur.disk = hist.prev.disk

\* C7, amended: as above, provided the first run removed no id from the register
\* file (no key was answered "User or machine not authorized").
C7_IdempotentWhenNothingUnregistered ==
    (hist.prev.valid /\ hist.cur.valid /\ ~hist.prev.removed)
        => hist.cur.disk = hist.prev.disk

\* Two runs in a row over a register file naming a key the server refuses and a
\* key it serves, the first run having removed nothing from the register file.
C7_Witness ==
    /\ hist.prev.valid /\ hist.cur.valid /\ ~hist.prev.removed
    /\ dpc = "idle" /\ counts.successCount = 2
    /\ \E id \in Range(keyIDs) : srv[id] = "unauth" /\ disk[id] # NoFile
    /\ \E id \in Range(keyIDs) : srv[id] = "ok" /\ disk[id] = FullKey(id, SrvHash(id))

\* ---------------------------------------------------------------------- C8
\* The daemon is inside processKey, past the fetch.
C8_InProcessKey == dpc \in {"fetched", "tmpOpen", "written", "writeErr", "renamed"}

\* C8: in every state, and so wherever processKey fails or the daemon stops, no
\* key's path holds a partially written key; and inside processKey the path of its
\* key holds no file, the content it held when processKey began, or the complete
\* new serialized key.
C8_CanonicalPathNeverPartial ==
    /\ \A id \in KeyIDs : disk[id].k # "partial"
    /\ C8_InProcessKey => disk[curKey.id] \in {NoFile, curKey.pre, curKey.b}
    /\ (C8_InProcessKey /\ dpc # "renamed") => disk[curKey.id] = curKey.pre

\* The write to the temp file has failed part-way, the key's path still holding the
\* complete older key.
C8_Witness ==
    /\ dpc = "writeErr"
    /\ tmp.k = "partial" /\ tmp.id # ""
    /\ curKey.pre = FullKey(curKey.id, "H0")
    /\ disk[curKey.id] = curKey.pre

\* ---------------------------------------------------------------------- C9
\* C9: the daemon and the external writer never hold the register-file lock at
\* the same time, and the id list a Get of the daemon returned is the file as the
\* last complete write left it (the writer is not inside a write).
C9_NoTornRead ==
    /\ ~(dHolds /\ cHolds)
    /\ dpc = "gotIDs" => (keyIDs = regStable /\ keyIDs = regFile /\ cli.pc = "idle")

\* Holding the lock, the daemon has read the two ids of the register file after
\* the writer completed an operation on it.
C9_Witness ==
    /\ dpc = "gotIDs"
    /\ dHolds /\ ~cHolds
    /\ cli.ops = 1
    /\ Len(keyIDs) = 2 /\ keyIDs = regStable

\* --------------------------------------------------------------------- C10
\* C10: the daemon reads and writes the register file only while it holds the
\* lock; it holds the lock from Lock's success to update()'s return and not after
\* any return; and an update() whose Lock failed has returned the error having read
\* no register file, listed no directory, called no server and touched no file.
C10_RegisterAccessUnderLock ==
    /\ ~run.unlocked
    /\ dpc # "idle" => dHolds
    /\ dpc = "idle" => ~dHolds
    /\ (dpc = "idle" /\ run.result = "err" /\ ~run.locked)
          => /\ ~run.regRead /\ ~run.dirRead /\ ~run.srvCalled
             /\ ~run.diskTouched /\ ~run.regRemoved /\ ~run.wrote
             /\ run.deleted = {}

\* An update() that took the lock, read the register file and removed a refused id
\* from it has returned, and the lock is free.
C10_Witness ==
    /\ dpc = "idle" /\ ~dHolds
    /\ run.locked /\ run.regRead /\ run.regRemoved
    /\ run.result = "nil"
    /\ Len(regFile) < Len(keyIDs)

\* --------------------------------------------------------------------- C11
\* The step in which a get-key request is answered.
C11_GetKeyStep == last' # last /\ last'.req.h = "getkey"

\* C11: get key answers OK only when authorizeRequest allowed Read without error,
\* which it does only when the key's ACL grants the caller Read or the installed
\* callback allowed; the key it returns has versions and an empty ACL; and a caller
\* that authorizeRequest denied is answered Unauthorized with no body.
C11_KeyOnlyToReaders ==
    /\ [](last.req.h = "getkey" /\ last.code = "OK"
            => /\ last.authz.called /\ last.authz.allow /\ ~last.authz.err
               /\ last.authz.access = "Read"
               /\ last.body.key.ACL = <<>>
               /\ last.body.key.ID = last.req.keyID)
    /\ [](last.req.h = "getkey" /\ last.authz.called /\ ~last.authz.allow /\ ~last.authz.err
            => last.code = "Unauthorized" /\ last.body = NullBody)
    /\ [](last.req.h = "getkey" /\ last.code # "OK" => last.body = NullBody)
    /\ [][C11_GetKeyStep /\ last'.code = "OK"
            => /\ last'.req.keyID \in DOMAIN keys
               /\ \/ CanAccess(last'.req.p, keys[last'.req.keyID].ACL, "Read")
                  \/ accessCallback = "installed" /\ last'.authz.cb = "allow"
               /\ last'.body.key.VersionList # <<>>
               /\ keys' = keys]_vars

\* Mallory, whom the ACL does not name, was let in by the callback and got the
\* key with its version and an empty ACL.
C11_Witness ==
    /\ last.req.h = "getkey" /\ last.req.p = Mallory /\ last.code = "OK"
    /\ last.authz.cb = "allow"
    /\ "k1" \in DOMAIN keys /\ ~CanAccess(Mallory, keys["k1"].ACL, "Read")
    /\ keys["k1"].ACL # <<>>
    /\ last.body.key.VersionList # <<>> /\ last.body.key.ACL = <<>>


\* C12: create key succeeds only for a principal of user type. A create-key request
\* from a non-user principal returns Unauthorized whatever its parameters are, and
\* the stored keys are unchanged by it; every step that adds a key to the store is
\* a successful create-key request of a user.
C12_PostKeysStep == last' # last /\ last'.req.h = "postkeys"

C12_OnlyUsersCreate ==
    /\ [](last.req.h = "postkeys" /\ ~IsUser(last.req.p)
            => last.code = "Unauthorized" /\ last.body = NullBody)
    /\ [][C12_PostKeysStep /\ ~IsUser(last'.req.p) => keys' = keys]_vars
    /\ [][DOMAIN keys' \ DOMAIN keys # {}
            => /\ last'.req.h = "postkeys"
               /\ IsUser(last'.req.p)
               /\ last'.code = "OK"]_vars

C12_Witness ==
    /\ last.req = PostKeysReq(Host1, "k1", "aGk=", NoAcl)
    /\ last.code = "Unauthorized"
    /\ keys = EmptyStore


\* C13: after a successful create key by user p, with any supplied acl (absent,
\* empty, or one that lists p with a lower access type), p is authorized for Admin
\* on the new key, and the key has exactly one version, with status Primary, whose
\* ID is the value returned to the caller.
C13_Created == DOMAIN keys' \ DOMAIN keys # {}

C13_CreatorIsAdminOfOnePrimary ==
    /\ [][last' # last /\ last'.req.h = "postkeys" /\ last'.code = "OK" => C13_Created]_vars
    /\ [][C13_Created
            => \A id \in DOMAIN keys' \ DOMAIN keys :
                  /\ id = last'.req.keyID
                  /\ last'.req.h = "postkeys" /\ last'.code = "OK"
                  /\ CanAccess(last'.req.p, keys'[id].ACL, "Admin")
                  /\ Len(keys'[id].VersionList) = 1
                  /\ keys'[id].VersionList[1].Status = "Primary"
                  /\ last'.body.vid = keys'[id].VersionList[1].ID]_vars

C13_Witness ==
    /\ last.req = PostKeysReq(Alice, "k1", "aGk=", OkAcl(<<Rule("User", "alice", "Read")>>))
    /\ last.code = "OK"
    /\ "k1" \in DOMAIN keys
    /\ CanAccess(Alice, keys["k1"].ACL, "Admin")
    /\ Len(keys["k1"].VersionList) = 1
    /\ last.body.vid = keys["k1"].VersionList[1].ID


\* C14: after any sequence of create-key and put-access requests the stored ACL of
\* every key contains no two rules with the same (PrincipalType, ID); a put-access
\* rule with AccessType None removes the existing (Type, ID) rule and a rule with
\* any other AccessType replaces it rather than adding a second one.
C14_SameIdentity(a, b) == a.Type = b.Type /\ a.ID = b.ID

C14_Matching(acl, rule) == {i \in 1..Len(acl) : C14_SameIdentity(acl[i], rule)}

C14_PutAccessDone(t) ==
    /\ MutationStep(t, "putaccess")
    /\ last'.code = "OK"
    /\ req[t].access.st = "ok"

C14_NoTwoRulesForOnePrincipal ==
    /\ [](\A id \in DOMAIN keys :
            \A i, j \in 1..Len(keys[id].ACL) :
                C14_SameIdentity(keys[id].ACL[i], keys[id].ACL[j]) => i = j)
    /\ [][\A t \in Threads :
            C14_PutAccessDone(t)
            => LET rule == req[t].access.v
                   before == keys[req[t].keyID].ACL
                   after == keys'[req[t].keyID].ACL
               IN IF rule.AccessType = "None"
                  THEN C14_Matching(after, rule) = {}
                  ELSE /\ \A i \in C14_Matching(after, rule) : after[i] = rule
                       /\ C14_Matching(after, rule) # {}
                       /\ Len(after) = IF C14_Matching(before, rule) = {}
                                       THEN Len(before) + 1 ELSE Len(before)]_vars


\* C15: every rule in the stored ACL of every key has a principal ID that is valid
\* for its PrincipalType and an AccessType other than None, after any sequence of
\* create-key and put-access requests; a put-access request in which any rule with
\* AccessType other than None has an invalid principal ID returns
\* BadPrincipalIdentifier and applies none of the rules of the request.
C15_HasInvalidRule(rules) ==
    \E i \in 1..Len(rules) :
        rules[i].AccessType # "None" /\ ~IsValidPrincipal(rules[i].Type, rules[i].ID)

C15_PutAccessRejectsInvalid ==
    [][\A t \in Threads :
        MutationStep(t, "putaccess") /\ C15_HasInvalidRule(PutAccessRules(req[t]))
        => last'.code = "BadPrincipalIdentifier" /\ keys' = keys]_vars

C15_StoredRulesValid ==
    /\ [](\A id \in DOMAIN keys :
            \A i \in 1..Len(keys[id].ACL) :
                /\ IsValidPrincipal(keys[id].ACL[i].Type, keys[id].ACL[i].ID)
                /\ keys[id].ACL[i].AccessType # "None")
    /\ C15_PutAccessRejectsInvalid


\* C16: put access requires exactly one of the parameters access and acl. A request
\* with neither returns BadRequestData, and a request carrying both is rejected
\* rather than applied; in both cases the key's ACL is unchanged.
C16_Neither(r) == r.h = "putaccess" /\ r.access.st = "absent" /\ r.acl.st = "absent"

C16_Both(r) == r.h = "putaccess" /\ r.access.st # "absent" /\ r.acl.st # "absent"

C16_NeitherIsBadRequest ==
    /\ [](C16_Neither(last.req) => last.code = "BadRequestData")
    /\ [](\A t \in Threads : ~C16_Neither(req[t]))

C16_ExactlyOneParameter ==
    /\ C16_NeitherIsBadRequest
    /\ [](C16_Both(last.req) => last.code # "OK")
    /\ [][\A t \in Threads :
            MutationStep(t, "putaccess") /\ C16_Both(req[t]) => keys' = keys]_vars


\* C17: create key by a user principal with a data parameter that is present and
\* non-empty but decodes (base64) to zero bytes returns BadRequestData and stores no
\* key; a missing or empty data parameter returns NoKeyData.
C17_ByUserWithID(r) == r.h = "postkeys" /\ IsUser(r.p) /\ r.keyID # Absent

C17_DecodesToNothing(r) ==
    /\ r.data \notin {Absent, ""}
    /\ ~StdDecode(r.data).err
    /\ StdDecode(r.data).bytes = <<>>

C17_NoDataIsNoKeyData ==
    [](C17_ByUserWithID(last.req) /\ last.req.data \in {Absent, ""}
        => last.code = "NoKeyData")

C17_EmptyDecodedDataRejected ==
    /\ [](C17_ByUserWithID(last.req) /\ C17_DecodesToNothing(last.req)
            => last.code = "BadRequestData")
    /\ [][last' # last /\ C17_ByUserWithID(last'.req) /\ C17_DecodesToNothing(last'.req)
            => keys' = keys]_vars
    /\ C17_NoDataIsNoKeyData


\* C18: every key-specific handler (get key, delete key, get access, put access,
\* add version, update version) returns KeyIdentifierDoesNotExist whenever the Key
\* Manager reports that the key ID is not found, both on the handler's initial
\* lookup and on its subsequent mutation call when a concurrent delete removed the
\* key between the two; InternalServerError is returned only for store errors that
\* are not a known sentinel.
C18_KeySpecific ==
    {"getkey", "deletekey", "getaccess", "putaccess", "postversion", "putversion"}

C18_LookupStep ==
    /\ last' # last /\ pc' = pc
    /\ last'.req.h \in C18_KeySpecific
    /\ last'.req.keyID \notin DOMAIN keys
    /\ last'.code # "BadRequestData"

C18_NotFoundOnLookup ==
    [][C18_LookupStep => last'.code = "KeyIdentifierDoesNotExist"]_vars

C18_NotFoundIsKeyIdentifierDoesNotExist ==
    /\ C18_NotFoundOnLookup
    /\ [][\A t \in Threads :
            /\ pc[t] = "authorized" /\ pc'[t] = "idle"
            /\ req[t].keyID \notin DOMAIN keys
            => last'.code = "KeyIdentifierDoesNotExist"]_vars
    /\ [](last.req.h \in C18_KeySpecific /\ last.code = "InternalServerError"
            => last.authz.err)


\* The step in which the register command's operation op returns: regStable is the
\* file as the operation found it, regFile' the file as it leaves it.
KeysFileReturns(op) == cli.pc # "written" /\ cli'.pc = "written" /\ cli'.op = op

\* C19: for any register file content (including one with repeated ids) and any
\* list ids, after Add(ids) returns without error the set of ids read by Get equals
\* the previous set united with ids; the file is not written when that union equals
\* the previous set.
C19_AddGivesUnion ==
    [][KeysFileReturns("Add")
        => LET previous == Range(KeysFile_Get(regStable))
               union == previous \cup Range(cli'.ks)
           IN /\ Range(KeysFile_Get(regFile')) = union
              /\ union = previous => cli.pc = "locked"]_vars

\* The same for a register file that holds no id twice.
C19_AddGivesUnionWithoutRepeats ==
    [][KeysFileReturns("Add") /\ Cardinality(Range(regStable)) = Len(regStable)
        => LET previous == Range(KeysFile_Get(regStable))
               union == previous \cup Range(cli'.ks)
           IN /\ Range(KeysFile_Get(regFile')) = union
              /\ union = previous => cli.pc = "locked"]_vars


\* C20: for any register file content and any list ids, after Remove(ids) the set
\* read by Get equals the previous set minus ids, and after Overwrite(ids) it equals
\* exactly the set of ids; after either operation the file contains no id twice, and
\* Remove applied twice with the same ids gives the same set as applied once.
C20_NoIDTwice(file) == Cardinality(Range(KeysFile_Get(file))) = Len(KeysFile_Get(file))

C20_RemoveAndOverwriteGiveSets ==
    /\ [][KeysFileReturns("Remove")
            => /\ Range(KeysFile_Get(regFile')) = Range(KeysFile_Get(regStable)) \ Range(cli'.ks)
               /\ C20_NoIDTwice(regFile')
               /\ \A again \in KeysFile_Remove(regFile', cli'.ks) :
                      Range(KeysFile_Get(again)) = Range(KeysFile_Get(regFile'))]_vars
    /\ [][KeysFileReturns("Overwrite")
            => /\ Range(KeysFile_Get(regFile')) = Range(cli'.ks)
               /\ C20_NoIDTwice(regFile')]_vars

C20_Witness ==
    /\ cli.pc = "writing" /\ cli.op = "Remove"
    /\ regStable = <<"k1", "k1">> /\ cli.ks = <<"k2">>
    /\ regFile = <<"k1">> /\ regFile = cli.buf


\* The step in which processKey returns the error of its fetch to update()'s loop
\* (curKey.err is the error processKey returns).
C21_FetchFailed ==
    /\ dpc = "loop" /\ dpc' = "loop"
    /\ counts'.getKeyErrCount = counts.getKeyErrCount + 1
    /\ curKey'.err \notin {"nil", "invalid key content returned"}

C21_Removed == Range(regFile') = Range(regFile) \ {curKey'.id}

\* The part of C21 without the answer "Key identifier does not exist".
C21_UnauthorizedIsUnregistered ==
    [][C21_FetchFailed /\ curKey'.err # "Key identifier does not exist"
        => /\ IF curKey'.err = "User or machine not authorized"
              THEN C21_Removed
              ELSE regFile' = regFile
           /\ disk' = disk /\ tmp' = tmp]_vars

\* C21: in processKey, when the server's answer to NetworkGetKey is the error "User
\* or machine not authorized" or "Key identifier does not exist", the id is removed
\* from the register file and an error is returned; for any other fetch error the
\* register file is left unchanged; in all these cases no cache file is written or
\* modified.
C21_RefusedIdIsUnregistered ==
    [][C21_FetchFailed
        => /\ IF curKey'.err \in {"User or machine not authorized",
                                  "Key identifier does not exist"}
              THEN C21_Removed
              ELSE regFile' = regFile
           /\ disk' = disk /\ tmp' = tmp]_vars


\* The step in which processKey returns to update()'s loop, and update()'s stages
\* from its loop over the updated ids on.
C22_InLoop == dpc \in {"loop", "fetched", "tmpOpen", "writeErr", "written", "renamed"}

C22_ProcessKeyReturns == C22_InLoop /\ dpc' = "loop"

\* C22: within one update(), a failure of processKey for one updated id does not
\* stop processing. Every return of processKey takes exactly its own id off the ids
\* still to process, getKeyErrCount grows by one exactly when processKey returned an
\* error, an id whose processKey returned nil has the server's key in its cache
\* file, and update() leaves the loop only with no id left and returns nil. A key
\* whose fetched content has an empty ID, nil ACL, nil VersionList or empty
\* VersionHash is rejected with the cache file left as it was: no cache file ever
\* gets content other than the server's complete key.
C22_FailuresDoNotStopUpdate ==
    /\ [][C22_ProcessKeyReturns
            => /\ curKey'.id \in updatedKeys
               /\ updatedKeys' = updatedKeys \ {curKey'.id}
               /\ counts'.getKeyErrCount =
                     counts.getKeyErrCount + (IF curKey'.err # "nil" THEN 1 ELSE 0)
               /\ curKey'.err = "nil" => disk'[curKey'.id] = Marshal(ServerKey(curKey'.id))
               /\ curKey'.err = "invalid key content returned"
                     => disk' = disk /\ tmp' = tmp /\ regFile' = regFile]_vars
    /\ [][counts'.getKeyErrCount # counts.getKeyErrCount => C22_ProcessKeyReturns]_vars
    /\ [][C22_InLoop /\ dpc' = "idle"
            => /\ updatedKeys = {}
               /\ run'.result = "nil"
               /\ counts'.successCount = counts.successCount + 1
               /\ counts'.updateErrCount = counts.updateErrCount]_vars
    /\ [][\A id \in KeyIDs :
            disk'[id] # disk[id] => disk'[id] \in {NoFile, Marshal(ServerKey(id))}]_vars

C22_Witness ==
    /\ dpc = "loop" /\ updatedKeys = {}
    /\ run.keyErrs = 1 /\ run.srvFault /\ ~run.fsFault /\ ~run.regRemoved
    /\ curKey.err = "nil"
    /\ curKey.pre = FullKey(curKey.id, "H0")
    /\ disk[curKey.id] = Marshal(ServerKey(curKey.id))
    /\ \E other \in KeyIDs \ {curKey.id} : disk[other] = FullKey(other, "H0")


\* C23: the daemon loop runs update() once at start and then, provided each
\* update() terminates, every ticker tick and every file-watcher event on the
\* register file is eventually followed by a new update(); two update() executions
\* never overlap, and each completed iteration increments exactly one of
\* updateErrCount and successCount, so their sum equals the number of completed
\* iterations.
C23_UpdateReturned == wake'.iterations # wake.iterations

C23_EveryWakeIsFollowedByUpdate ==
    /\ <>(wake.iterations >= 1)
    /\ wake.owed ~> ~wake.owed
    /\ [](dpc # "idle" => ~wake.waiting)
    /\ [][run'.locked /\ ~run.locked => dpc = "idle" /\ ~wake.waiting]_vars
    /\ [](counts.updateErrCount + counts.successCount = wake.iterations)
    /\ [][C23_UpdateReturned
            => /\ wake'.iterations = wake.iterations + 1
               /\ \/ /\ counts'.updateErrCount = counts.updateErrCount + 1
                     /\ counts'.successCount = counts.successCount
                  \/ /\ counts'.successCount = counts.successCount + 1
                     /\ counts'.updateErrCount = counts.updateErrCount]_vars

C23_Witness ==
    /\ wake.iterations = 1 /\ counts.updateErrCount = 1
    /\ dpc = "locked"
    /\ ~wake.tick /\ wake.events = 0 /\ ~wake.owed


\* --------------------------------------------------------------------- C24
\* The step in which thread t's Key Manager mutation changes the store, for a
\* request that the key's ACL (not the access callback) authorized.
C24_Applied(t) ==
    /\ \E h \in {"deletekey", "putaccess", "postversion", "putversion"} : MutationStep(t, h)
    /\ keys' # keys
    /\ authz[t].cb = "none"

\* C24: under concurrent handlers a mutation (DeleteKey, UpdateAccess, AddVersion,
\* UpdateVersion) changes a key only if the requesting principal holds the required
\* access in the key's ACL as it is when the mutation is applied; a principal whose
\* grant a concurrent put-access removed first does not get its mutation applied.
C24_AccessHeldWhenApplied ==
    [][\A t \in Threads :
          C24_Applied(t)
              => /\ req[t].keyID \in DOMAIN keys
                 /\ CanAccess(req[t].p, keys[req[t].keyID].ACL, C2_RequiredLevel(req[t].h))]_vars


\* --------------------------------------------------------------------- C25
\* update() passes from the directory scan to its loop over the updated ids.
C25_AfterGetKeys == dpc = "scanned" /\ dpc' = "loop"

\* C25: the daemon never creates a cache file for an id that was not in the register
\* file when update() read it. With an empty register set update() makes no server
\* call, so the server's answer to an empty query (all key ids) is never consumed;
\* with a non-empty one every id passed to processKey is a registered id, and a
\* file appears or changes in the key directory only for such an id.
C25_OnlyRegisteredIdsAreCached ==
    /\ [][C25_AfterGetKeys
            => /\ updatedKeys' \subseteq Range(keyIDs)
               /\ Range(keyIDs) = {} => ~run'.srvCalled /\ updatedKeys' = {}
               /\ run'.srvCalled => DOMAIN keyMap # {}]_vars
    /\ [][curKey' # curKey /\ curKey' # NoCur => curKey'.id \in Range(keyIDs)]_vars
    /\ [][\A id \in KeyIDs :
            disk'[id] # disk[id] /\ disk'[id] # NoFile
                => dpc # "idle" /\ run.regRead /\ id \in Range(keyIDs)]_vars

\* update() read an empty register file while the server held both keys and the key
\* directory was empty: it returned nil without a server call and cached nothing.
C25_Witness ==
    /\ dpc = "idle" /\ run.result = "nil" /\ run.regRead /\ run.dirRead
    /\ keyIDs = <<>> /\ regFile = <<>>
    /\ ~run.srvCalled
    /\ \A id \in KeyIDs : srv[id] = "ok" /\ disk[id] = NoFile
    /\ counts.getKeyErrCount = 0 /\ counts.successCount = 1

====
